---- MODULE Spec2Model ----
(***************************************************************************)
(* A model of spotdl's download core:                                      *)
(*   - Downloader._download_asynchronously / _pool_download, the batch of  *)
(*     song pipelines run on one asyncio loop behind a semaphore           *)
(*     (specification Spec);                                               *)
(*   - YouTubeMusic.search / YouTube.search, the resolver                  *)
(*     (specification SpecSearch);                                         *)
(*   - YouTubeMusic.order_results / YouTube.order_results, the ranker      *)
(*     (specification SpecOrder).                                          *)
(* A coroutine runs without interruption between two awaits, so one action *)
(* of Spec is one such segment of _pool_download.                          *)
(***************************************************************************)
EXTENDS Integers, Sequences, FiniteSets, TLC

\* ------------------------------------------------------------- bounds
NumSongs == 2
MaxThreads == 2

Songs == 1..NumSongs
None == "None"

VARIABLES
    \* Downloader configuration (Downloader.__init__)
    threads,          \* self.threads, the size of the semaphore
    handler,          \* self.progress_handler is not None
    m3u_file,         \* self.m3u_file is set
    output_format,    \* self.output_format
    \* the batch
    download_url,     \* song.download_url of every song: None or "preset"
                      \* ("unread" until the pipeline reads the input song)
    sem,              \* audio_provider.semaphore._value
    holding,          \* the songs whose coroutine is inside `async with semaphore`
    pc,               \* where every song's _pool_download coroutine stands
    log,              \* per song, the calls its pipeline has made, in order
    exc,              \* per song, the exception caught at the pipeline boundary
    escaped,          \* the songs whose _pool_download ended by raising
    m3u_lines,        \* the lines of the playlist file: 0 is a line it had
                      \* before the batch, s the output path of song s
    coord             \* _download_asynchronously: "running", "returned", "raised"

pipeVars == <<threads, handler, m3u_file, output_format, download_url, sem,
              holding, pc, log, exc, escaped, m3u_lines, coord>>

NoExc == [class |-> "none", cause |-> "none"]

\* ------------------------------------------------ asyncio.Semaphore(threads)
\* `async with semaphore` enters only when the counter is positive
SlotAvailableAlways(value) == TRUE
SlotAvailable(value) == value > 0

SemAcquire(value) == value - 1
SemRelease(value) == value + 1

\* --------------------------------------------------- the pipeline's segments
\* A segment's result: the extended call log and the exception that left the
\* inner code ("none": it returned or reached an await).
Res(lg, class, cause, next) ==
    [log |-> lg, exc |-> [class |-> class, cause |-> cause], next |-> next]

\* download_single_song up to the await of perform_download, wrapped by the
\* inner try/except of _pool_download (every exception becomes DownloaderError)
DownloadSingleSong(url, lg, found) ==
    IF url = None
    THEN CASE found = "found" -> Res(lg \o <<"search", "perform_download">>, "none", "none", "fetching")
           [] found = "none"  -> Res(Append(lg, "search"), "DownloaderError", "LookupError", "ended")
           [] OTHER           -> Res(Append(lg, "search"), "DownloaderError", "Exception", "ended")
    ELSE Res(Append(lg, "perform_download"), "none", "none", "fetching")

\* lines 217-226: `if not lyrics: lyrics = ""`, the text handed to
\* embed_metadata
EmbeddedLyricsRaw(lyr) == lyr
EmbeddedLyrics(lyr) == IF lyr \in {"none", "empty"} THEN "" ELSE lyr

\* lines 214-235: after a successful conversion or move
Tagging(tracker, m3u, lg, lyr, emb, m3uw) ==
    LET l1 == IF tracker THEN Append(lg, "notify_conversion_complete") ELSE lg
        l2 == Append(l1, "get_lyrics")
        l3 == Append(l2, "embed_metadata")
        l4 == IF tracker THEN Append(l3, "notify_complete") ELSE l3
        l5 == Append(l4, "m3u_append")
    IN  IF lyr = "raise" THEN Res(l2, "Exception", "none", "ended")
        ELSE IF emb = "raise" THEN Res(l3, "Exception", "none", "ended")
        ELSE IF ~m3u THEN Res(l4, "none", "none", "ended")
        ELSE IF m3uw = "raise" THEN Res(l5, "Exception", "none", "ended")
        ELSE Res(l5, "none", "none", "ended")

\* line 181: temp_file.suffix == ".m4a" and self.output_format == "m4a"
PassThroughNever(fetched, fmt) == FALSE
PassThrough(fetched, fmt) == fetched = "m4a" /\ fmt = "m4a"

\* lines 164-196: the fetch has ended with `fetched` (a suffix, None, "raise")
AfterDownload(tracker, m3u, fmt, lg, fetched, lyr, emb, m3uw) ==
    IF fetched = "raise" THEN Res(lg, "DownloaderError", "Exception", "ended")
    ELSE IF fetched = None THEN Res(lg, "none", "none", "ended")
    ELSE LET l1 == IF tracker THEN Append(lg, "notify_download_complete") ELSE lg
             l2 == Append(l1, "create_file_name")
         IN  IF PassThrough(fetched, fmt)
             THEN Tagging(tracker, m3u, Append(l2, "rename"), lyr, emb, m3uw)
             ELSE Res(Append(l2, "convert"), "none", "none", "converting")

\* lines 192-235: ffmpeg.convert has ended with `conv`
AfterConvert(tracker, m3u, lg, conv, lyr, emb, m3uw) ==
    IF conv = "raise" THEN Res(lg, "Exception", "none", "ended")
    ELSE LET l0 == IF conv = "ok" THEN lg ELSE Append(lg, "convert_returned_false")
             l1 == Append(l0, "unlink")
         IN  IF conv = "fail_msg"
             THEN Res(Append(l1, "error_file"), "FFmpegError", "none", "ended")
             ELSE Tagging(tracker, m3u, l1, lyr, emb, m3uw)

\* lines 232-233: open(self.m3u_file, "a+") and write of one line
M3uRewrite(lines, output_file) == <<output_file>>
M3uAppendTorn(lines, output_file) == Append(lines, 0 - output_file)
M3uAppend(lines, output_file) == Append(lines, output_file)

\* the segment wrote its line to the playlist file
M3uWritten(r) ==
    /\ r.exc.class = "none"
    /\ r.log # <<>>
    /\ r.log[Len(r.log)] = "m3u_append"

\* lines 236-242: the pipeline boundary
Boundary(tracker, r) ==
    IF r.exc.class = "none" THEN [log |-> r.log, esc |-> FALSE]
    ELSE IF tracker THEN [log |-> Append(r.log, "notify_error"), esc |-> FALSE]
    ELSE [log |-> r.log, esc |-> TRUE]

\* ================================================================ text
\* A string is a sequence of one-character strings.
Lower(ch) == IF ch = "A" THEN "a" ELSE IF ch = "B" THEN "b" ELSE ch
IsAlnum(ch) == ch \in {"a", "b", "c", "x", "y", "A", "B"}

\* slugify = Slugify(to_lower=True): the alphanumeric words of the text,
\* lower-cased and joined by single hyphens
RECURSIVE SlugFrom(_, _, _)
SlugFrom(str, acc, sep) ==
    IF str = <<>> THEN acc
    ELSE IF IsAlnum(Head(str))
         THEN SlugFrom(Tail(str),
                       acc \o (IF sep /\ acc # <<>> THEN <<"-">> ELSE <<>>)
                           \o <<Lower(Head(str))>>,
                       FALSE)
         ELSE SlugFrom(Tail(str), acc, TRUE)

slugify(str) == SlugFrom(str, <<>>, FALSE)

\* str.lower()
lower(str) == [i \in DOMAIN str |-> Lower(str[i])]

\* slug.replace("-", " ").split(" "): the list of the pieces between
\* separators, empty pieces included ("".split(" ") is [""])
RECURSIVE SplitFrom(_, _, _)
SplitFrom(str, cur, acc) ==
    IF str = <<>> THEN Append(acc, cur)
    ELSE IF Head(str) \in {"-", " "}
         THEN SplitFrom(Tail(str), <<>>, Append(acc, cur))
         ELSE SplitFrom(Tail(str), Append(cur, Head(str)), acc)

sentence_words(slug) == SplitFrom(slug, <<>>, <<>>)

\* word in text (substring)
Contains(word, text) ==
    \E i \in 0..(Len(text) - Len(word)) : SubSeq(text, i + 1, i + Len(word)) = word

\* ", ".join(strings)
RECURSIVE Join(_)
Join(strs) ==
    IF strs = <<>> THEN <<>>
    ELSE IF Len(strs) = 1 THEN strs[1]
    ELSE strs[1] \o <<",", " ">> \o Join(Tail(strs))

create_song_title(song_name, song_artists) ==
    IF Len(song_artists) >= 1
    THEN Join(song_artists) \o <<" ", "-", " ">> \o song_name
    ELSE song_name

\* ============================================================= numbers
\* Python computes the scores in floating point; the model keeps them as
\* exact fractions n/d with d > 0.
R(n, d) == [n |-> n, d |-> d]
RInt(k) == R(k, 1)
RAdd(a, b) == R(a.n * b.d + b.n * a.d, a.d * b.d)
RSub(a, b) == R(a.n * b.d - b.n * a.d, a.d * b.d)
RDivInt(a, k) == R(a.n, a.d * k)
REq(a, b) == a.n * b.d = b.n * a.d
RLt(a, b) == a.n * b.d < b.n * a.d
RLe(a, b) == a.n * b.d <= b.n * a.d

RECURSIVE SumSeq(_)
SumSeq(xs) == IF xs = <<>> THEN 0 ELSE Head(xs) + SumSeq(Tail(xs))

\* ============================================ the ranker: order_results
\* spotdl.utils.providers.match_percentage: the similarity (a percentage) of
\* two texts. A result carries, in `mp`, the percentages of the comparisons
\* order_results makes with it:
\*   artists[i]  artist i of the song against the result's artist text
\*               (against the result's title for a video and for YouTube)
\*   channel[i]  artist i against the artist text of a video (the fallback)
\*   name        the result's title against the song's name or title
\*   album       the result's album against the song's album
\*   self_album  the result's album against the result's own title
match_percentage(result, what) == result.mp[what]

\* lines 186-189 (ytmusic) and 130-135 (youtube)
CommonWordAlways(slug_song_name, slug_result_name) == TRUE
CommonWord(slug_song_name, slug_result_name) ==
    LET words == sentence_words(slug_song_name)
    IN  \E i \in DOMAIN words : words[i] # <<>> /\ Contains(words[i], slug_result_name)

\* ytmusic.py lines 243-247; a fraction with denominator 0 stands for the
\* ZeroDivisionError of the division by song_duration
TimeMatchYTM(result_duration, song_duration) ==
    LET delta == result_duration - song_duration
    IN  RSub(RInt(100), R(delta * delta * 100, song_duration))

\* youtube.py lines 164-166
TimeMatchYT(result_length, song_duration) ==
    RSub(RInt(100),
         R((result_length - song_duration * song_duration) * 100, song_duration))

\* What the loop body of order_results computes for one result: the stage at
\* which it left the iteration and the locals computed up to there.
Term(stage, artist, name, album, time, avg) ==
    [stage |-> stage, artist_match |-> artist, name_match |-> name,
     album_match |-> album, time_match |-> time, average_match |-> avg]

NoVal == R(0, 0)
\* a text field that is None
NoneText == <<None>>

\* artist_match = artist_match_number / len(song_artists)
ArtistMatchSum(artist_match_number, song_artists) == R(artist_match_number, 1)
ArtistMatch(artist_match_number, song_artists) ==
    R(artist_match_number, Len(song_artists))

\* lines 249-268: the album match is one of the terms of the average
UseAlbumWhenPresent(result, song) ==
    result.type = "song" /\ result.album # NoneText
UseAlbumMatch(result, song) ==
    /\ result.type = "song"
    /\ result.album # NoneText
    /\ ~(/\ match_percentage(result, "self_album") > 95
         /\ lower(result.album) # lower(song.album_name))

\* YouTubeMusic.order_results, lines 181-271
MatchResultYTM(result, song) ==
    LET n == Len(song.artists)
        slug_song_name == slugify(song.name)
        slug_result_name == slugify(result.name)
        primary == SumSeq([i \in 1..n |-> match_percentage(result, "artists")[i]])
        artist_match_number ==
            IF result.type = "song" \/ primary # 0 THEN primary
            ELSE SumSeq([i \in 1..n |-> match_percentage(result, "channel")[i]])
        artist_match == ArtistMatch(artist_match_number, song.artists)
        name_match == RInt(match_percentage(result, "name"))
        album == IF result.type = "song" THEN result.album ELSE NoneText
        album_match == IF album # NoneText /\ album # <<>>
                       THEN RInt(match_percentage(result, "album")) ELSE RInt(0)
        time_match == TimeMatchYTM(result.duration, song.duration)
        three == RDivInt(RAdd(RAdd(artist_match, name_match), time_match), 3)
        four == RDivInt(RAdd(RAdd(RAdd(artist_match, album_match), name_match),
                             time_match), 4)
        average_match == IF UseAlbumMatch(result, song) THEN four ELSE three
    IN  IF ~CommonWord(slug_song_name, slug_result_name)
        THEN Term("no_common_word", NoVal, NoVal, NoVal, NoVal, NoVal)
        ELSE IF n = 0
        THEN Term("raise", NoVal, NoVal, NoVal, NoVal, NoVal)
        ELSE IF RLt(artist_match, RInt(70))
        THEN Term("artist", artist_match, NoVal, NoVal, NoVal, NoVal)
        ELSE IF RLt(name_match, RInt(50))
        THEN Term("name", artist_match, name_match, NoVal, NoVal, NoVal)
        ELSE IF time_match.d = 0
        THEN Term("raise", artist_match, name_match, album_match, NoVal, NoVal)
        ELSE Term("accepted", artist_match, name_match, album_match, time_match,
                  average_match)

\* YouTube.order_results, lines 123-171
MatchResultYT(result, song) ==
    LET n == Len(song.artists)
        slug_song_name == slugify(song.name)
        slug_result_name == slugify(result.name)
        artist_match ==
            ArtistMatch(SumSeq([i \in 1..n |-> match_percentage(result, "artists")[i]]),
                        song.artists)
        name_match == RInt(match_percentage(result, "name"))
        time_match == TimeMatchYT(result.duration, song.duration)
        average_match == RDivInt(RAdd(RAdd(artist_match, name_match), time_match), 3)
    IN  IF result.video_id = None
        THEN Term("no_id", NoVal, NoVal, NoVal, NoVal, NoVal)
        ELSE IF ~CommonWord(slug_song_name, slug_result_name)
        THEN Term("no_common_word", NoVal, NoVal, NoVal, NoVal, NoVal)
        ELSE IF n = 0
        THEN Term("raise", NoVal, NoVal, NoVal, NoVal, NoVal)
        ELSE IF RLt(artist_match, RInt(70))
        THEN Term("artist", artist_match, NoVal, NoVal, NoVal, NoVal)
        ELSE IF RLt(name_match, RInt(50))
        THEN Term("name", artist_match, name_match, NoVal, NoVal, NoVal)
        ELSE IF time_match.d = 0
        THEN Term("raise", artist_match, name_match, NoVal, NoVal, NoVal)
        ELSE Term("accepted", artist_match, name_match, NoVal, time_match,
                  average_match)

MatchResult(provider, result, song) ==
    IF provider = "youtube-music" THEN MatchResultYTM(result, song)
    ELSE MatchResultYT(result, song)

\* a dict in insertion order: d[key] = value
DictSet(d, key, value) ==
    IF \E i \in DOMAIN d : d[i].link = key
    THEN [i \in DOMAIN d |-> IF d[i].link = key THEN [link |-> key, value |-> value]
                             ELSE d[i]]
    ELSE Append(d, [link |-> key, value |-> value])

\* the for loop of order_results: the terms of the results seen before the
\* loop ended (a raise ends it) and links_with_match_value as it stands then
RECURSIVE OrderLoop(_, _, _, _, _)
OrderLoop(provider, results, song, terms, links) ==
    IF results = <<>>
    THEN [raised |-> FALSE, terms |-> terms, links_with_match_value |-> links]
    ELSE LET t == MatchResult(provider, Head(results), song)
         IN  IF t.stage = "raise"
             THEN [raised |-> TRUE, terms |-> Append(terms, t),
                   links_with_match_value |-> links]
             ELSE OrderLoop(provider, Tail(results), song, Append(terms, t),
                            IF t.stage = "accepted"
                            THEN DictSet(links, Head(results).link, t.average_match)
                            ELSE links)

order_results(provider, results, song) ==
    OrderLoop(provider, results, song, <<>>, <<>>)

\* ------------------------------------------------ inputs of the ranker
MaxArtists == 2
MaxResults == 2

Providers == {"youtube-music", "youtube"}
Links == {"l1", "l2"}
SongNames == {<<"A">>, <<"a", " ", "b">>, <<"-">>}
ResultNames == {<<"a">>, <<"b", "a">>, <<"c">>, <<"A", " ", "c">>}
SongDurations == {0, 2, 20}
ResultDurations == {0, 2, 3, 21}
ArtistPercents == {0, 100}
NamePercents == {40, 100}
AlbumPercents == {0, 100}

ArtistName(i) == IF i % 2 = 1 THEN <<"x">> ELSE <<"y">>
ArtistLists == {[i \in 1..n |-> ArtistName(i)] : n \in 1..MaxArtists}

MakeSong(name, artists, duration, isrc) ==
    [name |-> name, artists |-> artists, album_name |-> <<"x">>,
     duration |-> duration, isrc |-> isrc]

OrderSongs ==
    {MakeSong(name, artists, duration, None) :
        name \in SongNames, artists \in ArtistLists, duration \in SongDurations}

MP(artists, channel, name, album, self_album) ==
    [artists |-> artists, channel |-> channel, name |-> name, album |-> album,
     self_album |-> self_album]

Zeros(n) == [i \in 1..n |-> 0]

MakeResult(name, type, video_id, link, album, duration, mp) ==
    [name |-> name, type |-> type, video_id |-> video_id, link |-> link,
     album |-> album, duration |-> duration, mp |-> mp]

\* the simplified results of YouTubeMusic.get_results (lines 152-161)
YTMSongResults(n) ==
    {MakeResult(name, "song", "v", link, NoneText, duration, MP(a, Zeros(n), nm, 0, 0)) :
        name \in ResultNames, link \in Links, duration \in ResultDurations,
        a \in [1..n -> ArtistPercents], nm \in NamePercents}
    \cup
    {MakeResult(name, "song", "v", link, album, duration, MP(a, Zeros(n), nm, al, sa)) :
        name \in ResultNames, link \in Links, duration \in ResultDurations,
        a \in [1..n -> ArtistPercents], nm \in NamePercents,
        album \in {<<"x">>, <<"y">>}, al \in AlbumPercents, sa \in AlbumPercents}

YTMVideoResults(n) ==
    {MakeResult(name, "video", "v", link, NoneText, duration, MP(a, ch, nm, 0, 0)) :
        name \in ResultNames, link \in Links, duration \in ResultDurations,
        a \in [1..n -> ArtistPercents], nm \in NamePercents,
        ch \in [1..n -> ArtistPercents]}

\* pytube's results of YouTube.get_results
YTResults(n) ==
    {MakeResult(name, "video", vid, link, NoneText, duration, MP(a, Zeros(n), nm, 0, 0)) :
        name \in ResultNames, link \in Links, duration \in ResultDurations,
        a \in [1..n -> ArtistPercents], nm \in NamePercents, vid \in {"v", None}}

ResultPool(provider, n) ==
    IF provider = "youtube-music" THEN YTMSongResults(n) \cup YTMVideoResults(n)
    ELSE YTResults(n)

\* the results that follow the first one in a list
MoreResults(provider, n) ==
    {MakeResult(<<"a">>, IF provider = "youtube-music" THEN "song" ELSE "video", "v",
                link, NoneText, 2, MP([i \in 1..n |-> 100], Zeros(n), 100, 0, 0)) :
        link \in Links}

RECURSIVE ListsUpTo(_, _)
ListsUpTo(pool, k) ==
    IF k = 0 THEN {<<>>}
    ELSE LET shorter == ListsUpTo(pool, k - 1)
         IN  shorter \cup {Append(l, r) : l \in shorter, r \in pool}

ResultLists(provider, n) ==
    {<<>>} \cup {<<r>> \o more : r \in ResultPool(provider, n),
                                more \in ListsUpTo(MoreResults(provider, n), MaxResults - 1)}

\* ------------------------------------------------- the ranker (SpecOrder)
VARIABLES
    o_pc,         \* "call" before order_results is called, "done" after
    o_provider,   \* the provider whose order_results is called
    o_song,       \* the song (song_name, song_artists, song_album_name, song_duration)
    o_results,    \* the results argument
    o_out         \* what the call did: raised or not, the loop's terms, the mapping

orderVars == <<o_pc, o_provider, o_song, o_results, o_out>>

\* the state of one call of search (SpecSearch)
VARIABLES
    s_pc,         \* the phase search is about to run; "done": it has ended
    s_provider,   \* the provider whose search runs
    s_song,       \* the song
    s_calls,      \* the get_results calls made so far, with their answers
    s_songs,      \* the scored results kept (songs, then the merged results)
    s_result,     \* what search returned or raised
    s_prev        \* the calls and the outcome of the previous call of search
                  \* for the same song, when there was one

searchVars == <<s_pc, s_provider, s_song, s_calls, s_songs, s_result, s_prev>>

\* the state of one call of console download() (SpecFilter)
VARIABLES
    d_pc,          \* download(): "loop", "submitted" ("idle": not called)
    d_songs_list,  \* songs_list
    d_exists,      \* the songs whose destination file, create_file_name(song,
                   \* output, output_format), exists
    d_overwrite,   \* downloader.overwrite
    d_next,        \* the position of the for loop in songs_list
    d_songs,       \* songs
    d_submitted    \* the argument of download_multiple_songs

filterVars == <<d_pc, d_songs_list, d_exists, d_overwrite, d_next, d_songs,
                d_submitted>>

\* the state of the SpotifyClient class (SpecSpotify)
VARIABLES
    c_instance,   \* Singleton._instance
    c_user_auth,  \* SpotifyClient.user_auth ("unset" until an init sets it)
    c_created,    \* how many clients have been constructed
    c_calls       \* the calls made so far, with what each of them left

clientVars == <<c_instance, c_user_auth, c_created, c_calls>>

\* one pipeline watched on its own (SpecSong)
VARIABLES
    seen          \* what the collaborators of the watched song's pipeline
                  \* returned: the fetched file's suffix, the converter's and
                  \* the lyrics provider's results ("none yet" until then)

songVars == <<seen>>

\* the progress handler and its trackers (SpecProgress)
VARIABLES
    p_handler,    \* the ProgressHandler: song_count, overall_progress,
                  \* overall_completed_tasks
    p_trackers,   \* the SongTracker made for each pipeline: progress,
                  \* old_progress, status (and how often it was counted complete)
    p_hooks,      \* audio_handler._progress_hooks, in order of registration
    p_stage,      \* where each pipeline stands
    p_bytes,      \* downloaded_bytes last reported by each pipeline's fetch
    p_events,     \* progress events reported by the fetches so far
    p_source      \* the pipeline whose fetch reported the last progress event

progVars == <<p_handler, p_trackers, p_hooks, p_stage, p_bytes, p_events, p_source>>

\* one call of create_file_name (SpecFileName)
VARIABLES
    n_pc,         \* "call": an activation of create_file_name is to run;
                  \* "returned"; "RecursionError"; "idle"
    n_song,       \* the song argument
    n_template,   \* the template argument of the activation to run
    n_short,      \* its short argument
    n_calls,      \* activations run so far
    n_file        \* the returned path: its parts, the last being file.name

nameVars == <<n_pc, n_song, n_template, n_short, n_calls, n_file>>

NoOut == [raised |-> FALSE, terms |-> <<>>, links_with_match_value |-> <<>>]

OrderInit ==
    /\ o_pc = "call"
    /\ o_provider \in Providers
    /\ o_song \in OrderSongs
    /\ o_results = <<>>
    /\ o_out = NoOut

OrderIdle ==
    /\ o_pc = "idle"
    /\ o_provider = "youtube-music"
    /\ o_song = MakeSong(<<"a">>, <<<<"x">>>>, 2, None)
    /\ o_results = <<>>
    /\ o_out = NoOut

OrderResults ==
    /\ o_pc = "call"
    /\ \E results \in ResultLists(o_provider, Len(o_song.artists)) :
         /\ o_results' = results
         /\ o_out' = order_results(o_provider, results, o_song)
    /\ o_pc' = "done"
    /\ UNCHANGED <<o_provider, o_song>>
    /\ UNCHANGED <<pipeVars, searchVars, filterVars, clientVars, songVars, progVars, nameVars>>

\* ================================================== the resolver: search
\* max(d, key=...) and sorted(items, key=..., reverse=True)[0]: the first key,
\* in insertion order, whose value is the greatest
LastBestLink(d) ==
    LET i == CHOOSE i \in DOMAIN d :
                 /\ \A j \in DOMAIN d : RLe(d[j].value, d[i].value)
                 /\ \A j \in (i + 1)..Len(d) : RLt(d[j].value, d[i].value)
    IN  d[i]
BestLink(d) ==
    LET i == CHOOSE i \in DOMAIN d :
                 /\ \A j \in DOMAIN d : RLe(d[j].value, d[i].value)
                 /\ \A j \in 1..(i - 1) : RLt(d[j].value, d[i].value)
    IN  d[i]

\* {**songs, **videos}
MergeKeepSongs(songs, videos) ==
    LET New(v) == \A i \in DOMAIN songs : songs[i].link # v.link
    IN  songs \o SelectSeq(videos, New)
RECURSIVE Merge(_, _)
Merge(songs, videos) ==
    IF videos = <<>> THEN songs
    ELSE Merge(DictSet(songs, Head(videos).link, Head(videos).value), Tail(videos))

\* a response of the search collaborator (get_results): it raises, it gives
\* None (pytube's Search.results) or it gives a list of results
Raises == [kind |-> "raise", results |-> <<>>]
GivesNone == [kind |-> "none", results |-> <<>>]
Gives(results) == [kind |-> "list", results |-> results]

\* what a phase of search leaves: the phase to go to ("done": search has
\* returned or raised), the value returned or the exception raised, and the
\* scored songs kept for the merge
Found(link) == [kind |-> "link", link |-> link, error |-> "none"]
NotFound == [kind |-> "none", link |-> None, error |-> "none"]
Failure(error) == [kind |-> "error", link |-> None, error |-> error]
Pending == [kind |-> "pending", link |-> None, error |-> "none"]
Goto(next, result, songs) == [next |-> next, result |-> result, songs |-> songs]

\* YouTubeMusic.search lines 72-92, once get_results has answered
IsrcPhaseYTM(song, resp) ==
    IF resp.kind = "raise" THEN Goto("done", Failure("get_results"), <<>>)
    ELSE IF Len(resp.results) # 1 THEN Goto("primary", Pending, <<>>)
    ELSE LET isrc_result == resp.results[1]
             name_match == lower(isrc_result.name) = lower(song.name)
             time_match == TimeMatchYTM(isrc_result.duration, song.duration)
         IN  IF time_match.d = 0
             THEN Goto("done", Failure("ZeroDivisionError"), <<>>)
             ELSE IF isrc_result.link # None /\ name_match /\ RLt(RInt(90), time_match)
             THEN Goto("done", Found(isrc_result.link), <<>>)
             ELSE Goto("primary", Pending, <<>>)

\* YouTube.search lines 66-73
IsrcPhaseYT(song, resp) ==
    IF resp.kind = "raise" THEN Goto("done", Failure("get_results"), <<>>)
    ELSE IF resp.kind = "list" /\ Len(resp.results) = 1
            /\ resp.results[1].link # None
    THEN Goto("done", Found(resp.results[1].link), <<>>)
    ELSE Goto("primary", Pending, <<>>)

\* the same phase with the collaborator's exception swallowed
IsrcPhaseSwallow(provider, song, resp) ==
    LET r == IF resp.kind = "raise" THEN Gives(<<>>) ELSE resp
    IN  IF provider = "youtube-music" THEN IsrcPhaseYTM(song, r)
        ELSE IsrcPhaseYT(song, r)

IsrcPhase(provider, song, resp) ==
    IF provider = "youtube-music" THEN IsrcPhaseYTM(song, resp)
    ELSE IsrcPhaseYT(song, resp)

\* line 111: songs[best_result] >= 80
VeryHighConfidence(score) == RLe(RInt(90), score)
HighConfidence(score) == RLe(RInt(80), score)

\* YouTubeMusic.search lines 94-112
PrimaryPhaseYTM(song, resp) ==
    IF resp.kind = "raise" THEN Goto("done", Failure("get_results"), <<>>)
    ELSE LET out == order_results("youtube-music", resp.results, song)
             songs == out.links_with_match_value
         IN  IF out.raised THEN Goto("done", Failure("ZeroDivisionError"), <<>>)
             ELSE IF Len(songs) # 0 /\ HighConfidence(BestLink(songs).value)
             THEN Goto("done", Found(BestLink(songs).link), songs)
             ELSE Goto("secondary", Pending, songs)

\* YouTube.search lines 75-100
PrimaryPhaseYT(song, resp) ==
    IF resp.kind = "raise" THEN Goto("done", Failure("get_results"), <<>>)
    ELSE IF resp.kind = "none" THEN Goto("done", NotFound, <<>>)
    ELSE LET out == order_results("youtube", resp.results, song)
             ordered_results == out.links_with_match_value
         IN  IF out.raised THEN Goto("done", Failure("ZeroDivisionError"), <<>>)
             ELSE IF Len(ordered_results) = 0 THEN Goto("done", NotFound, <<>>)
             ELSE Goto("done", Found(BestLink(ordered_results).link), ordered_results)

PrimaryPhase(provider, song, resp) ==
    IF provider = "youtube-music" THEN PrimaryPhaseYTM(song, resp)
    ELSE PrimaryPhaseYT(song, resp)

\* YouTubeMusic.search lines 114-137
SecondaryPhase(song, songs, resp) ==
    IF resp.kind = "raise" THEN Goto("done", Failure("get_results"), songs)
    ELSE LET out == order_results("youtube-music", resp.results, song)
             results == Merge(songs, out.links_with_match_value)
         IN  IF out.raised THEN Goto("done", Failure("ZeroDivisionError"), songs)
             ELSE IF results = <<>> THEN Goto("done", NotFound, results)
             ELSE Goto("done", Found(BestLink(results).link), results)

\* ----------------------------------------------- inputs of the resolver
SearchSongs ==
    {MakeSong(<<"A">>, <<<<"x">>>>, duration, isrc) :
        duration \in SongDurations, isrc \in {None, "isrc"}}

Perfect == MP(<<100>>, <<0>>, 100, 0, 0)

\* what the stubbed collaborator may answer to the ISRC query
IsrcPool(provider) ==
    LET type == IF provider = "youtube-music" THEN "song" ELSE "video"
    IN  {MakeResult(<<"a">>, type, "v", "l1", NoneText, 2, Perfect),
         MakeResult(<<"c">>, type, "v", "l2", NoneText, 2, Perfect),
         MakeResult(<<"a">>, type, "v", "l2", NoneText, 21, Perfect)}
        \cup (IF provider = "youtube"
              THEN {MakeResult(<<"a">>, type, "v", None, NoneText, 2, Perfect)}
              ELSE {})

\* ... to the title query (for YouTubeMusic, with the "songs" filter)
PrimaryPool(provider) ==
    LET type == IF provider = "youtube-music" THEN "song" ELSE "video"
    IN  {MakeResult(<<"a">>, type, "v", "l1", NoneText, 2, Perfect),
         MakeResult(<<"a">>, type, "v", "l2", NoneText, 2, Perfect),
         MakeResult(<<"a">>, type, "v", "l1", NoneText, 3, Perfect),
         MakeResult(<<"c">>, type, "v", "l2", NoneText, 2, Perfect)}
        \cup (IF provider = "youtube-music"
              THEN {MakeResult(<<"a">>, type, "v", "l2", <<"y">>, 2, Perfect)}
              ELSE {})

\* ... to the title query with the "videos" filter
SecondaryPool ==
    {MakeResult(<<"a">>, "video", "v", "l1", NoneText, 2, Perfect),
     MakeResult(<<"a">>, "video", "v", "l1", NoneText, 3, Perfect),
     MakeResult(<<"a">>, "video", "v", "l2", NoneText, 21, Perfect),
     MakeResult(<<"a">>, "video", "v", "l2", NoneText, 2, Perfect),
     MakeResult(<<"c">>, "video", "v", "l2", NoneText, 2, Perfect)}

\* the lists a pool gives: the first result is any of the pool, the later
\* ones are among its first two kinds
StubLists(pool) ==
    LET more == {r \in pool : r.name = <<"a">> /\ r.duration = 2 /\ r.album = NoneText
                              /\ r.link # None}
    IN  {<<>>} \cup {<<r>> \o l : r \in pool, l \in ListsUpTo(more, MaxResults - 1)}

Responses(provider, pool) ==
    {Raises} \cup {Gives(l) : l \in StubLists(pool)}
    \cup (IF provider = "youtube" THEN {GivesNone} ELSE {})

\* ----------------------------------------------- the resolver (SpecSearch)
NoPrev == [done |-> FALSE, calls |-> <<>>, result |-> Pending]

SearchInit ==
    /\ s_pc = "isrc"
    /\ s_provider \in Providers
    /\ s_song \in SearchSongs
    /\ s_calls = <<>>
    /\ s_songs = <<>>
    /\ s_result = Pending
    /\ s_prev = NoPrev

SearchIdle ==
    /\ s_pc = "idle"
    /\ s_provider = "youtube-music"
    /\ s_song = MakeSong(<<"A">>, <<<<"x">>>>, 2, None)
    /\ s_calls = <<>>
    /\ s_songs = <<>>
    /\ s_result = Pending
    /\ s_prev = NoPrev

\* the search collaborator is a stub with fixed answers: a query it has
\* answered in the previous call of search gets the same answer again
Stub(phase, responses) ==
    IF \E i \in DOMAIN s_prev.calls : s_prev.calls[i].phase = phase
    THEN {s_prev.calls[i].response :
            i \in {j \in DOMAIN s_prev.calls : s_prev.calls[j].phase = phase}}
    ELSE responses

Called(phase, resp) == [phase |-> phase, response |-> resp]

SearchStep(calls, g) ==
    /\ s_calls' = calls
    /\ s_pc' = g.next
    /\ s_result' = g.result
    /\ s_songs' = g.songs
    /\ UNCHANGED <<s_provider, s_song, s_prev>>
    /\ UNCHANGED <<pipeVars, orderVars, filterVars, clientVars, songVars, progVars, nameVars>>

\* search, lines 72-92 (ytmusic) and 66-73 (youtube): the song has no ISRC
SearchSkipIsrc ==
    /\ s_pc = "isrc"
    /\ s_song.isrc = None
    /\ SearchStep(s_calls, Goto("primary", Pending, <<>>))

\* ... or the ISRC is looked up
SearchIsrc ==
    /\ s_pc = "isrc"
    /\ s_song.isrc # None
    /\ \E resp \in Stub("isrc", Responses(s_provider, IsrcPool(s_provider))) :
         SearchStep(Append(s_calls, Called("isrc", resp)),
                    IsrcPhase(s_provider, s_song, resp))

SearchPrimary ==
    /\ s_pc = "primary"
    /\ \E resp \in Stub("primary", Responses(s_provider, PrimaryPool(s_provider))) :
         SearchStep(Append(s_calls, Called("primary", resp)),
                    PrimaryPhase(s_provider, s_song, resp))

SearchSecondary ==
    /\ s_pc = "secondary"
    /\ \E resp \in Stub("secondary", Responses(s_provider, SecondaryPool)) :
         SearchStep(Append(s_calls, Called("secondary", resp)),
                    SecondaryPhase(s_song, s_songs, resp))

\* search has ended and is called once more with the same song; its locals
\* are new ones
SearchAgain ==
    /\ s_pc = "done"
    /\ ~s_prev.done
    /\ s_prev' = [done |-> TRUE, calls |-> s_calls, result |-> s_result]
    /\ s_pc' = "isrc"
    /\ s_calls' = <<>>
    /\ s_songs' = <<>>
    /\ s_result' = Pending
    /\ UNCHANGED <<s_provider, s_song>>
    /\ UNCHANGED <<pipeVars, orderVars, filterVars, clientVars, songVars, progVars, nameVars>>

\* ================================== console download(): the overwrite filter
MaxQuery == 3
QuerySongs == 1..MaxQuery
OverwritePolicies == {"overwrite", "skip"}

\* parse_query(query, threads): the songs of the query, in query order, each
\* of them once
SongsLists ==
    {l \in UNION {[1..n -> QuerySongs] : n \in 0..MaxQuery} :
        \A i, j \in DOMAIN l : l[i] = l[j] => i = j}

\* lines 28-32: the song is appended
KeepAll(exists, overwrite) == TRUE
Keep(exists, overwrite) ==
    IF exists THEN overwrite = "overwrite" ELSE TRUE

FilterInit ==
    /\ d_pc = "loop"
    /\ d_songs_list \in SongsLists
    /\ d_exists \in SUBSET QuerySongs
    /\ d_overwrite \in OverwritePolicies
    /\ d_next = 1
    /\ d_songs = <<>>
    /\ d_submitted = <<>>

FilterIdle ==
    /\ d_pc = "idle"
    /\ d_songs_list = <<>>
    /\ d_exists = {}
    /\ d_overwrite = "overwrite"
    /\ d_next = 1
    /\ d_songs = <<>>
    /\ d_submitted = <<>>

\* lines 23-32: one iteration of `for song in songs_list`
DownloadLoop ==
    /\ d_pc = "loop"
    /\ d_next <= Len(d_songs_list)
    /\ LET song == d_songs_list[d_next]
       IN  d_songs' = IF Keep(song \in d_exists, d_overwrite)
                      THEN Append(d_songs, song)
                      ELSE d_songs
    /\ d_next' = d_next + 1
    /\ UNCHANGED <<d_pc, d_songs_list, d_exists, d_overwrite, d_submitted>>
    /\ UNCHANGED <<pipeVars, orderVars, searchVars, clientVars, songVars, progVars, nameVars>>

\* line 34: downloader.download_multiple_songs(songs)
DownloadSubmit ==
    /\ d_pc = "loop"
    /\ d_next > Len(d_songs_list)
    /\ d_submitted' = d_songs
    /\ d_pc' = "submitted"
    /\ UNCHANGED <<d_songs_list, d_exists, d_overwrite, d_next, d_songs>>
    /\ UNCHANGED <<pipeVars, orderVars, searchVars, clientVars, songVars, progVars, nameVars>>

\* ============================== SpotifyClient: the Singleton metaclass
MaxCalls == 4
\* Singleton._instance = None; an instance is known by its rank of creation
NoInstance == 0

\* line 40: isinstance(self._instance, self)
NeverInitialized(instance) == FALSE
AlreadyInitialized(instance) == instance # NoInstance

\* what a call left: the exception it raised ("none": it returned), the
\* value it returned and Singleton._instance after it
Outcome(op, raised, value, instance) ==
    [op |-> op, raised |-> raised, value |-> value, instance |-> instance]

\* Singleton.__call__, lines 22-28
SingletonCall(instance) ==
    IF instance = NoInstance
    THEN Outcome("call", "SpotifyError", NoInstance, instance)
    ELSE Outcome("call", "none", instance, instance)

\* Singleton.init, lines 30-69; `creation` is what the credential manager and
\* the constructor of the client do: return or raise
SingletonInit(instance, created, creation) ==
    IF AlreadyInitialized(instance)
    THEN Outcome("init", "SpotifyError", NoInstance, instance)
    ELSE IF creation = "raise"
    THEN Outcome("init", "Exception", NoInstance, instance)
    ELSE Outcome("init", "none", created + 1, created + 1)

ClientInit ==
    /\ c_instance = NoInstance
    /\ c_user_auth = "unset"
    /\ c_created = 0
    /\ c_calls = <<>>

\* SpotifyClient()
SpotifyClientCall ==
    /\ Len(c_calls) < MaxCalls
    /\ c_calls' = Append(c_calls, SingletonCall(c_instance))
    /\ UNCHANGED <<c_instance, c_user_auth, c_created>>
    /\ UNCHANGED <<pipeVars, orderVars, searchVars, filterVars, songVars, progVars, nameVars>>

\* SpotifyClient.init(client_id, client_secret, user_auth)
SpotifyClientInit ==
    /\ Len(c_calls) < MaxCalls
    /\ \E user_auth \in {"True", "False"}, creation \in {"ok", "raise"} :
         LET o == SingletonInit(c_instance, c_created, creation)
             \* line 43-65: a credential manager that raises leaves before
             \* line 63; the constructor of the client raises after it
             set == ~AlreadyInitialized(c_instance)
         IN  /\ c_calls' = Append(c_calls, o)
             /\ c_instance' = o.instance
             /\ c_created' = IF o.raised = "none" THEN c_created + 1 ELSE c_created
             /\ c_user_auth' \in IF ~set THEN {c_user_auth}
                                 ELSE IF creation = "raise"
                                 THEN {c_user_auth, user_auth}
                                 ELSE {user_auth}
    /\ UNCHANGED <<pipeVars, orderVars, searchVars, filterVars, songVars, progVars, nameVars>>

\* ------------------------------------------------------- the batch (Spec)
SetupOutcomes == {"ok", "raise"}
SearchOutcomes == {"found", "none", "raise"}
FetchOutcomes == {"m4a", "webm", None, "raise"}
ConvertOutcomes == {"ok", "fail_msg", "fail_nomsg", "raise"}
LyricsOutcomes == {"text", "none", "empty", "raise"}
CallOutcomes == {"ok", "raise"}

\* a segment of song s has run: record where it stands now, and leave the
\* `async with` block (releasing the slot) when the coroutine has ended
Advance(s, r, value) ==
    LET b == Boundary(handler, r) IN
    /\ pc' = [pc EXCEPT ![s] = r.next]
    /\ log' = [log EXCEPT ![s] = b.log]
    /\ exc' = [exc EXCEPT ![s] = r.exc]
    /\ escaped' = IF b.esc THEN escaped \cup {s} ELSE escaped
    /\ m3u_lines' = IF M3uWritten(r) THEN M3uAppend(m3u_lines, s) ELSE m3u_lines
    /\ sem' = IF r.next = "ended" THEN SemRelease(value) ELSE value
    /\ holding' = IF r.next = "ended" THEN holding \ {s} ELSE holding \cup {s}

\* lines 151-163: enter the semaphore, set the tracker up, resolve the source
\* and hand the fetch to the executor
PoolDownloadEnter(s) ==
    /\ coord = "running"
    /\ pc[s] = "start"
    /\ SlotAvailable(sem)
    /\ \E url \in {None, "preset"}, setup \in SetupOutcomes, found \in SearchOutcomes :
         /\ IF handler /\ setup = "raise"
            THEN \* raised before the try block: nothing catches it
                 /\ download_url' = download_url
                 /\ pc' = [pc EXCEPT ![s] = "ended"]
                 /\ log' = [log EXCEPT ![s] = <<"get_new_tracker">>]
                 /\ exc' = [exc EXCEPT ![s] = [class |-> "Exception", cause |-> "none"]]
                 /\ escaped' = escaped \cup {s}
                 /\ m3u_lines' = m3u_lines
                 /\ sem' = SemRelease(SemAcquire(sem))
                 /\ holding' = holding
            ELSE /\ download_url' = [download_url EXCEPT ![s] = url]
                 /\ Advance(s,
                            DownloadSingleSong(url,
                                IF handler THEN <<"get_new_tracker", "add_progress_hook">> ELSE <<>>,
                                found),
                            SemAcquire(sem))
    /\ UNCHANGED <<threads, handler, m3u_file, output_format, coord>>
    /\ UNCHANGED <<songVars, orderVars, searchVars, filterVars, clientVars, progVars, nameVars>>

\* lines 161-196: the executor's future is done
PoolDownloadFetched(s) ==
    /\ coord = "running"
    /\ pc[s] = "fetching"
    /\ \E r \in {AfterDownload(handler, m3u_file, output_format, log[s],
                                fetched, lyr, emb, m3uw) :
                      fetched \in FetchOutcomes, lyr \in LyricsOutcomes,
                      emb \in CallOutcomes, m3uw \in CallOutcomes} :
         Advance(s, r, sem)
    /\ UNCHANGED <<threads, handler, m3u_file, output_format, download_url, coord>>
    /\ UNCHANGED <<songVars, orderVars, searchVars, filterVars, clientVars, progVars, nameVars>>

\* lines 192-235: ffmpeg.convert is done
PoolDownloadConverted(s) ==
    /\ coord = "running"
    /\ pc[s] = "converting"
    /\ \E r \in {AfterConvert(handler, m3u_file, log[s], conv, lyr, emb, m3uw) :
                      conv \in ConvertOutcomes, lyr \in LyricsOutcomes,
                      emb \in CallOutcomes, m3uw \in CallOutcomes} :
         Advance(s, r, sem)
    /\ UNCHANGED <<threads, handler, m3u_file, output_format, download_url, coord>>
    /\ UNCHANGED <<songVars, orderVars, searchVars, filterVars, clientVars, progVars, nameVars>>

\* ------------------------------------------- one pipeline watched (SpecSong)
\* the song whose pipeline is watched
Watched == CHOOSE s \in Songs : \A u \in Songs : s <= u

NotCalled == "not called"

NoSeen == [fetched |-> NotCalled, conv |-> NotCalled, lyrics |-> NotCalled,
           embedded |-> NotCalled, embed |-> NotCalled, m3u |-> NotCalled]

SongIdle == seen = NoSeen

\* what the collaborators returned in the segment that produced the log lg:
\* a collaborator the segment did not reach returned nothing
Observed(fetched, conv, lg, lyr, emb, m3uw) ==
    LET called(c) == \E i \in DOMAIN lg : lg[i] = c
    IN  [fetched  |-> fetched,
         conv     |-> conv,
         lyrics   |-> IF called("get_lyrics") THEN lyr ELSE NotCalled,
         embedded |-> IF called("embed_metadata") THEN EmbeddedLyrics(lyr) ELSE NotCalled,
         embed    |-> IF called("embed_metadata") THEN emb ELSE NotCalled,
         m3u      |-> IF called("m3u_append") THEN m3uw ELSE NotCalled]

\* lines 151-163 for the watched song
SongEnter == PoolDownloadEnter(Watched)

\* lines 161-196 for the watched song
SongFetched ==
    /\ coord = "running"
    /\ pc[Watched] = "fetching"
    /\ UNCHANGED <<threads, handler, m3u_file, output_format, download_url, coord>>
    /\ \E fetched \in FetchOutcomes, lyr \in LyricsOutcomes,
          emb \in CallOutcomes, m3uw \in CallOutcomes :
         /\ Advance(Watched,
                    AfterDownload(handler, m3u_file, output_format, log[Watched],
                                  fetched, lyr, emb, m3uw),
                    sem)
         /\ seen' = Observed(fetched, NotCalled, log'[Watched], lyr, emb, m3uw)
    /\ UNCHANGED <<orderVars, searchVars, filterVars, clientVars, progVars, nameVars>>

\* lines 192-235 for the watched song
SongConverted ==
    /\ coord = "running"
    /\ pc[Watched] = "converting"
    /\ UNCHANGED <<threads, handler, m3u_file, output_format, download_url, coord>>
    /\ \E conv \in ConvertOutcomes, lyr \in LyricsOutcomes,
          emb \in CallOutcomes, m3uw \in CallOutcomes :
         /\ Advance(Watched,
                    AfterConvert(handler, m3u_file, log[Watched], conv, lyr, emb, m3uw),
                    sem)
         /\ seen' = Observed(seen.fetched, conv, log'[Watched], lyr, emb, m3uw)
    /\ UNCHANGED <<orderVars, searchVars, filterVars, clientVars, progVars, nameVars>>

\* ------------------------------------ the progress handler (SpecProgress)
MaxTrackers == 2
MaxEvents == 2
Trackers == 1..MaxTrackers

\* total_bytes of every fetched file
FileBytes == 2

\* SongTracker.__init__ (base.py:143-146); counted is the number of times the
\* tracker has added 1 to overall_completed_tasks
NewTracker == [progress |-> 0, old_progress |-> 0, status |-> "", counted |-> 0]

\* ProgressHandler.__init__ (base.py:49-52)
NewHandler == [song_count |-> 0, overall_progress |-> 0, overall_completed_tasks |-> 0]

\* the handler with its trackers
Board(h, tr) == [h |-> h, tr |-> tr]

\* SongTracker.update / TuiSongTracker.update
update(st, t, message) ==
    LET tr == st.tr[t]
        delta == tr.progress - tr.old_progress
        complete == tr.progress = 100 \/ message = "Error"
        one == IF complete THEN 1 ELSE 0
    IN  Board([st.h EXCEPT !.overall_completed_tasks = @ + one,
                           !.overall_progress = @ + delta],
              [st.tr EXCEPT ![t] = [tr EXCEPT !.status = message,
                                              !.old_progress = tr.progress,
                                              !.counted = @ + one]])

SetProgress(st, t, value) == Board(st.h, [st.tr EXCEPT ![t].progress = value])

notify_error(st, t) == update(st, t, "Error")
notify_download_complete(st, t) == update(SetProgress(st, t, 90), t, "Converting")
notify_conversion_complete(st, t) == update(SetProgress(st, t, 95), t, "Tagging")
notify_complete(st, t) == update(SetProgress(st, t, 100), t, "Done")

\* SongTracker.progress_hook with the data of a progress event: downloaded
\* is downloaded_bytes, 0 when the event has no byte counts (or none yet)
progress_hook(st, t, downloaded) ==
    update(IF downloaded > 0
           THEN SetProgress(st, t, (downloaded * 90) \div FileBytes)
           ELSE st,
           t, "Downloading")

\* the downloader of the shared YoutubeDL object reports a progress event to
\* every hook of _progress_hooks, in order
RECURSIVE CallHooks(_, _, _)
CallHooks(st, hooks, downloaded) ==
    IF hooks = <<>> THEN st
    ELSE CallHooks(progress_hook(st, Head(hooks), downloaded), Tail(hooks), downloaded)

ProgIdle ==
    /\ p_handler = NewHandler
    /\ p_trackers = [t \in Trackers |-> NewTracker]
    /\ p_hooks = <<>>
    /\ p_stage = [t \in Trackers |-> "idle"]
    /\ p_bytes = [t \in Trackers |-> 0]
    /\ p_events = 0
    /\ p_source = 0

ProgInit ==
    /\ p_handler = NewHandler
    /\ p_trackers = [t \in Trackers |-> NewTracker]
    /\ p_hooks = <<>>
    /\ p_stage = [t \in Trackers |-> "unused"]
    /\ p_bytes = [t \in Trackers |-> 0]
    /\ p_events = 0
    /\ p_source = 0

ProgFrame == UNCHANGED <<pipeVars, orderVars, searchVars, filterVars, clientVars,
                         songVars, nameVars>>

\* the board becomes st
SetBoard(st) ==
    /\ p_handler' = st.h
    /\ p_trackers' = st.tr

\* download_song / download_multiple_songs: set_song_count(len(songs)) and
\* one pipeline for each of the n songs of the batch
StartBatch ==
    /\ \A t \in Trackers : p_stage[t] \in {"unused", "done"}
    /\ \E n \in 1..MaxTrackers :
         LET unused == {t \in Trackers : p_stage[t] = "unused"}
             batch == {t \in unused : Cardinality({u \in unused : u < t}) < n}
         IN  /\ Cardinality(unused) >= n
             /\ p_handler' = [p_handler EXCEPT !.song_count = n]
             /\ p_stage' = [t \in Trackers |->
                              IF t \in batch THEN "queued" ELSE p_stage[t]]
    /\ UNCHANGED <<p_trackers, p_hooks, p_bytes, p_events, p_source>>
    /\ ProgFrame

\* downloader.py:153-158: get_new_tracker and add_progress_hook
TrackerNew(t) ==
    /\ p_stage[t] = "queued"
    /\ p_stage' = [p_stage EXCEPT ![t] = "fetching"]
    /\ p_trackers' = [p_trackers EXCEPT ![t] = NewTracker]
    /\ p_hooks' = Append(p_hooks, t)
    /\ UNCHANGED <<p_handler, p_bytes, p_events, p_source>>
    /\ ProgFrame

\* the fetch of pipeline d reports a progress event
ProgressEvent(d) ==
    /\ p_stage[d] = "fetching"
    /\ p_events < MaxEvents
    /\ \E downloaded \in 0..FileBytes :
         /\ downloaded = 0 \/ downloaded >= p_bytes[d]
         /\ p_bytes' = [p_bytes EXCEPT ![d] = IF downloaded = 0 THEN @ ELSE downloaded]
         /\ SetBoard(CallHooks(Board(p_handler, p_trackers), p_hooks, downloaded))
    /\ p_events' = p_events + 1
    /\ p_source' = d
    /\ UNCHANGED <<p_hooks, p_stage>>
    /\ ProgFrame

\* downloader.py:174: the fetch gave no file
TrackerReturnsNone(t) ==
    /\ p_stage[t] = "fetching"
    /\ p_stage' = [p_stage EXCEPT ![t] = "done"]
    /\ UNCHANGED <<p_handler, p_trackers, p_hooks, p_bytes, p_events, p_source>>
    /\ ProgFrame

\* downloader.py:176-177
TrackerDownloaded(t) ==
    /\ p_stage[t] = "fetching"
    /\ p_stage' = [p_stage EXCEPT ![t] = "converting"]
    /\ SetBoard(notify_download_complete(Board(p_handler, p_trackers), t))
    /\ UNCHANGED <<p_hooks, p_bytes, p_events, p_source>>
    /\ ProgFrame

\* downloader.py:213-214
TrackerConverted(t) ==
    /\ p_stage[t] = "converting"
    /\ p_stage' = [p_stage EXCEPT ![t] = "tagging"]
    /\ SetBoard(notify_conversion_complete(Board(p_handler, p_trackers), t))
    /\ UNCHANGED <<p_hooks, p_bytes, p_events, p_source>>
    /\ ProgFrame

\* downloader.py:226-242: notify_complete, then the playlist append; when
\* the append raises, the except clause calls notify_error
TrackerComplete(t) ==
    /\ p_stage[t] = "tagging"
    /\ p_stage' = [p_stage EXCEPT ![t] = "done"]
    /\ \E m3uw \in {"no m3u_file", "ok", "raise"} :
         LET st == notify_complete(Board(p_handler, p_trackers), t)
         IN  SetBoard(IF m3uw = "raise" THEN notify_error(st, t) ELSE st)
    /\ UNCHANGED <<p_hooks, p_bytes, p_events, p_source>>
    /\ ProgFrame

\* downloader.py:236-240: an exception of the fetch, the conversion, the
\* lyrics or the embedding
TrackerError(t) ==
    /\ p_stage[t] \in {"fetching", "converting", "tagging"}
    /\ p_stage' = [p_stage EXCEPT ![t] = "done"]
    /\ SetBoard(notify_error(Board(p_handler, p_trackers), t))
    /\ UNCHANGED <<p_hooks, p_bytes, p_events, p_source>>
    /\ ProgFrame

\* ---------------------------------- create_file_name (SpecFileName)
\* A template is a sequence of symbols: the keys it holds, each one symbol,
\* and the other characters one by one. The values hold no braces, so
\* replacing key symbols is what str.replace does to the keys.
FormatKeys == {"{title}", "{artists}", "{artist}", "{output-ext}"}

\* formatter.py:103
NameMax == 255

\* the interpreter's limit on nested activations, as far as the model follows
MaxDepth == 4

\* n times the character c
Rep(c, n) == [i \in 1..n |-> c]

\* sanitize_string
sanitize_string(string) ==
    LET kept == SelectSeq(string, LAMBDA c : c \notin {"/", "?", "\\", "*", "|", "<", ">"})
    IN  [i \in DOMAIN kept |->
            IF kept[i] = "\"" THEN "'" ELSE IF kept[i] = ":" THEN "-" ELSE kept[i]]

\* lines 46-66 and 82-83: the sanitized value of a key
FormatValue(song, file_extension, short, key) ==
    sanitize_string(
        CASE key = "{title}" -> song.name
          [] key = "{artists}" -> IF short THEN song.artists[1] ELSE Join(song.artists)
          [] key = "{artist}" -> song.artists[1]
          [] OTHER -> file_extension)

\* lines 86-87: template.replace(key, value) for every key
RECURSIVE ReplaceRange(_, _, _, _, _, _)
ReplaceRange(template, lo, hi, song, file_extension, short) ==
    IF lo > hi THEN <<>>
    ELSE IF lo = hi
    THEN IF template[lo] \in FormatKeys
         THEN FormatValue(song, file_extension, short, template[lo])
         ELSE <<template[lo]>>
    ELSE LET mid == (lo + hi) \div 2
         IN  ReplaceRange(template, lo, mid, song, file_extension, short)
             \o ReplaceRange(template, mid + 1, hi, song, file_extension, short)

ReplaceKeys(template, song, file_extension, short) ==
    ReplaceRange(template, 1, Len(template), song, file_extension, short)

DefaultName == <<"/", "{artists}", " ", "-", " ", "{title}", ".", "{output-ext}">>

EndsWith(str, suffix) ==
    /\ Len(str) >= Len(suffix)
    /\ SubSeq(str, Len(str) - Len(suffix) + 1, Len(str)) = suffix

\* lines 68-80: the template completed with a file name and the extension
CompleteTemplate(template) ==
    LET t1 == IF \A i \in DOMAIN template : template[i] \notin FormatKeys
              THEN template \o DefaultName ELSE template
        t2 == IF EndsWith(t1, <<"/">>) \/ EndsWith(t1, <<"\\", "\\">>)
              THEN t1 \o DefaultName ELSE t1
    IN  IF EndsWith(t2, <<".", "{output-ext}">>) THEN t2
        ELSE t2 \o <<".", "{output-ext}">>

\* Path(template).parts of a relative path: the pieces between slashes,
\* without the empty ones and the "." ones
RECURSIVE PartsFrom(_, _, _)
PartsFrom(str, starts, seps) ==
    IF starts = {} THEN <<>>
    ELSE LET first == CHOOSE i \in starts : \A k \in starts : i <= k
             after == {j \in seps : j > first}
             stop == IF after = {} THEN Len(str) + 1
                     ELSE CHOOSE j \in after : \A k \in after : j <= k
         IN  <<SubSeq(str, first, stop - 1)>> \o PartsFrom(str, starts \ {first}, seps)

PathParts(str) ==
    LET seps == {i \in DOMAIN str : str[i] = "/"}
        starts == {i \in DOMAIN str \ seps : i = 1 \/ (i - 1) \in seps}
    IN  SelectSeq(PartsFrom(str, starts, seps), LAMBDA part : part # <<".">>)

\* lines 93-98: re.search(r"[^\.*](.*)[^\.*$]", part), group 0 or the part
SanitizePart(part) ==
    LET starts == {i \in DOMAIN part : part[i] \notin {".", "*"}}
        ends == {j \in DOMAIN part : part[j] \notin {".", "*", "$"}}
        first == CHOOSE i \in starts : \A k \in starts : i <= k
        last == CHOOSE j \in ends : \A k \in ends : j >= k
    IN  IF starts # {} /\ ends # {} /\ first < last
        THEN SubSeq(part, first, last)
        ELSE part

\* one activation of create_file_name up to its return or its recursive
\* call: the path, and the template handed on by line 104
create_file_name(song, template, file_extension, short) ==
    LET filled == ReplaceKeys(CompleteTemplate(template), song, file_extension, short)
        parts == PathParts(filled)
        file == [i \in DOMAIN parts |-> SanitizePart(parts[i])]
    IN  [file |-> file,
         name |-> IF file = <<>> THEN <<>> ELSE file[Len(file)],
         again |-> filled]

\* the songs, templates and the extension of the calls
LongLen == 300
NameArtists == {<<Rep("a", 3)>>, <<Rep("a", 3), Rep("b", 4)>>,
                <<Rep("a", 3), Rep("b", LongLen)>>, <<Rep("a", LongLen)>>}
NameTitles == {<<"t", ":", "t", "/", "t">>, Rep("t", 252), Rep("t", LongLen)}
NameSongs == {[name |-> n, artists |-> a] : n \in NameTitles, a \in NameArtists}
Templates ==
    {<<"{artists}", " ", "-", " ", "{title}", ".", "{output-ext}">>,
     <<"{artist}", "/", "{title}">>,
     <<"o", "u", "t", "/">>,
     <<".">>}
FileExtension == <<"m", "p", "3">>
NoFile == <<>>

NameIdle ==
    /\ n_pc = "idle"
    /\ n_song = [name |-> <<>>, artists |-> <<>>]
    /\ n_template = <<>>
    /\ n_short = FALSE
    /\ n_calls = 0
    /\ n_file = NoFile

NameInit ==
    /\ n_pc = "call"
    /\ n_song \in NameSongs
    /\ n_template \in Templates
    /\ n_short = FALSE
    /\ n_calls = 0
    /\ n_file = NoFile

\* an activation of create_file_name(song, template, file_extension, short)
CreateFileName ==
    /\ n_pc = "call"
    /\ LET r == create_file_name(n_song, n_template, FileExtension, n_short)
       IN  IF Len(r.name) > NameMax
           THEN \* line 104: the recursive call, if the stack allows one
                /\ n_pc' = IF n_calls + 1 < MaxDepth THEN "call" ELSE "RecursionError"
                /\ n_template' = r.again
                /\ n_short' = TRUE
                /\ n_file' = n_file
           ELSE /\ n_pc' = "returned"
                /\ n_file' = r.file
                /\ UNCHANGED <<n_template, n_short>>
    /\ n_calls' = n_calls + 1
    /\ UNCHANGED n_song
    /\ UNCHANGED <<pipeVars, orderVars, searchVars, filterVars, clientVars,
                   songVars, progVars>>

\* line 137: gather() has an exception set by the first task that raised;
\* run_until_complete stops the loop and raises it, whatever the others do
RunUntilCompleteRaises ==
    /\ coord = "running"
    /\ escaped # {}
    /\ coord' = "raised"
    /\ UNCHANGED <<threads, handler, m3u_file, output_format, download_url,
                   sem, holding, pc, log, exc, escaped, m3u_lines>>
    /\ UNCHANGED <<songVars, orderVars, searchVars, filterVars, clientVars, progVars, nameVars>>

\* line 137: every task is done and none raised
RunUntilCompleteReturns ==
    /\ coord = "running"
    /\ escaped = {}
    /\ \A s \in Songs : pc[s] = "ended"
    /\ coord' = "returned"
    /\ UNCHANGED <<threads, handler, m3u_file, output_format, download_url,
                   sem, holding, pc, log, exc, escaped, m3u_lines>>
    /\ UNCHANGED <<songVars, orderVars, searchVars, filterVars, clientVars, progVars, nameVars>>

PipeInit ==
    /\ threads \in 1..MaxThreads
    /\ handler \in BOOLEAN
    /\ m3u_file \in BOOLEAN
    /\ output_format \in {"mp3", "m4a"}
    /\ download_url = [s \in Songs |-> "unread"]
    /\ sem = threads
    /\ holding = {}
    /\ pc = [s \in Songs |-> "start"]
    /\ log = [s \in Songs |-> <<>>]
    /\ exc = [s \in Songs |-> NoExc]
    /\ escaped = {}
    /\ m3u_lines = <<0>>
    /\ coord = "running"

PipeIdle ==
    /\ threads = 1
    /\ handler = FALSE
    /\ m3u_file = FALSE
    /\ output_format = "mp3"
    /\ download_url = [s \in Songs |-> "unread"]
    /\ sem = threads
    /\ holding = {}
    /\ pc = [s \in Songs |-> "idle"]
    /\ log = [s \in Songs |-> <<>>]
    /\ exc = [s \in Songs |-> NoExc]
    /\ escaped = {}
    /\ m3u_lines = <<0>>
    /\ coord = "idle"

PipeNext ==
    \/ \E s \in Songs : PoolDownloadEnter(s)
    \/ \E s \in Songs : PoolDownloadFetched(s)
    \/ \E s \in Songs : PoolDownloadConverted(s)
    \/ RunUntilCompleteRaises
    \/ RunUntilCompleteReturns

vars == <<pipeVars, orderVars, searchVars, filterVars, clientVars,
         songVars, progVars, nameVars>>

\* the batch
Init == PipeInit /\ OrderIdle /\ SearchIdle /\ FilterIdle /\ ClientInit
    /\ SongIdle /\ ProgIdle /\ NameIdle
Next == PipeNext
Spec == Init /\ [][Next]_vars

\* one pipeline of the batch, with what its collaborators returned
InitSong == Init
NextSong ==
    \/ SongEnter
    \/ SongFetched
    \/ SongConverted
SpecSong == InitSong /\ [][NextSong]_vars

\* batches of one Downloader, seen by its progress handler
InitProgress == ProgInit /\ PipeIdle /\ OrderIdle /\ SearchIdle /\ FilterIdle /\ ClientInit
    /\ SongIdle /\ NameIdle
NextProgress ==
    \/ StartBatch
    \/ \E t \in Trackers : TrackerNew(t)
    \/ \E t \in Trackers : ProgressEvent(t)
    \/ \E t \in Trackers : TrackerReturnsNone(t)
    \/ \E t \in Trackers : TrackerDownloaded(t)
    \/ \E t \in Trackers : TrackerConverted(t)
    \/ \E t \in Trackers : TrackerComplete(t)
    \/ \E t \in Trackers : TrackerError(t)
SpecProgress == InitProgress /\ [][NextProgress]_vars

\* one call of create_file_name
InitFileName == NameInit /\ PipeIdle /\ OrderIdle /\ SearchIdle /\ FilterIdle /\ ClientInit
    /\ SongIdle /\ ProgIdle
NextFileName == CreateFileName
SpecFileName == InitFileName /\ [][NextFileName]_vars

\* one call of order_results
InitOrder == OrderInit /\ PipeIdle /\ SearchIdle /\ FilterIdle /\ ClientInit
    /\ SongIdle /\ ProgIdle /\ NameIdle
NextOrder == OrderResults
SpecOrder == InitOrder /\ [][NextOrder]_vars

\* one call of search
InitSearch == SearchInit /\ PipeIdle /\ OrderIdle /\ FilterIdle /\ ClientInit
    /\ SongIdle /\ ProgIdle /\ NameIdle
NextSearch ==
    \/ SearchSkipIsrc
    \/ SearchIsrc
    \/ SearchPrimary
    \/ SearchSecondary
    \/ SearchAgain
SpecSearch == InitSearch /\ [][NextSearch]_vars

\* one call of console download()
InitFilter == FilterInit /\ PipeIdle /\ OrderIdle /\ SearchIdle /\ ClientInit
    /\ SongIdle /\ ProgIdle /\ NameIdle
NextFilter ==
    \/ DownloadLoop
    \/ DownloadSubmit
SpecFilter == InitFilter /\ [][NextFilter]_vars

\* calls of SpotifyClient.init and SpotifyClient()
InitSpotify == ClientInit /\ PipeIdle /\ OrderIdle /\ SearchIdle /\ FilterIdle
    /\ SongIdle /\ ProgIdle /\ NameIdle
NextSpotify ==
    \/ SpotifyClientCall
    \/ SpotifyClientInit
SpecSpotify == InitSpotify /\ [][NextSpotify]_vars

\* ----------------------------------------------------- claims about the batch
Calls(s) == {log[s][i] : i \in DOMAIN log[s]}

\* the terminal reports a song's tracker has received
TerminalReports(s) ==
    Cardinality({i \in DOMAIN log[s] : log[s][i] \in {"notify_complete", "notify_error"}})

\* what the progress tracker of an ended song was last told, and the class of
\* the exception handed to notify_error
Report(s) ==
    [status |-> IF "notify_error" \in Calls(s) THEN "Error"
                ELSE IF "notify_complete" \in Calls(s) THEN "Done"
                ELSE "none",
     error |-> IF "notify_error" \in Calls(s) THEN exc[s].class ELSE "none"]

\* C1: every song whose pipeline has ended has received exactly one terminal
\* report (notify_complete or notify_error); none ends without a report.
C1_ExactlyOneTerminalReport ==
    \A s \in Songs : pc[s] = "ended" => TerminalReports(s) = 1

\* C2: at most `threads` pipelines are inside the semaphore-guarded section at
\* any time, the semaphore counts them, a song that is fetching or converting
\* is inside it, and the tagging step (embed_metadata) is only ever taken by a
\* song that is inside it.
C2_SlotInv ==
    /\ Cardinality(holding) <= threads
    /\ sem = threads - Cardinality(holding)
    /\ \A s \in Songs : pc[s] \in {"fetching", "converting"} => s \in holding

C2_SemaphoreBoundsSection ==
    /\ []C2_SlotInv
    /\ [][\A s \in Songs :
            ("embed_metadata" \in {log'[s][i] : i \in DOMAIN log'[s]}
                /\ "embed_metadata" \notin Calls(s))
            => s \in holding]_vars

\* C2 witness: every slot is taken, one holder is converting, and another
\* song is waiting for a slot
C2_Witness ==
    /\ Cardinality(holding) = threads
    /\ \E s \in Songs : pc[s] = "converting"
    /\ \E s \in Songs : pc[s] = "start"

\* C3: once the batch has finished (control has left _download_asynchronously)
\* every slot is free again and no song is still waiting for one.
C3_SlotsReleasedAfterBatch ==
    coord # "running" => (sem = threads /\ \A s \in Songs : pc[s] # "start")

\* C4: no exception leaves _pool_download or the batch run; a song whose
\* pipeline raised has ended with notify_error as its last call, and every
\* other ended song that was fetched has ended with its own steps' result.
C4_FailureIsolation ==
    /\ escaped = {}
    /\ coord # "raised"
    /\ \A s \in Songs :
         (pc[s] = "ended" /\ exc[s].class # "none")
            => (log[s] # <<>> /\ log[s][Len(log[s])] = "notify_error")

\* C5: control leaves _download_asynchronously (by return or by raise) only
\* when every submitted song's pipeline has ended.
C5_CoordinatorWaitsForAll ==
    coord # "running" => \A s \in Songs : pc[s] = "ended"

\* C6: search is called only for a song without download_url; a song for which
\* search found nothing ends without raising, and what is reported for it
\* differs from what is reported for a song whose search or fetch raised.
C6_NotFoundDistinct ==
    /\ \A s \in Songs : download_url[s] = "preset" => "search" \notin Calls(s)
    /\ \A s \in Songs :
         (pc[s] = "ended" /\ exc[s].cause = "LookupError") => s \notin escaped
    /\ \A s, t \in Songs :
         (/\ pc[s] = "ended" /\ exc[s].cause = "LookupError"
          /\ pc[t] = "ended" /\ exc[t].cause = "Exception"
          /\ exc[t].class = "DownloaderError")
            => Report(s) # Report(t)

\* ---------------------------------------------------- claims about the ranker
\* the i-th result of the call reached the duration term
Scored(i) == o_out.terms[i].stage = "accepted"

\* C9: for every result order_results scores, the duration-match term is
\* 100 - ((result.duration - song.duration)^2 / song.duration * 100), hence
\* exactly 100 when the two durations are equal, in both providers.
C9_DurationMatchTerm ==
    o_pc = "done" =>
        \A i \in DOMAIN o_out.terms :
            Scored(i) =>
                LET D == o_song.duration
                    delta == o_results[i].duration - D
                IN  /\ REq(o_out.terms[i].time_match,
                           RSub(RInt(100), R(delta * delta * 100, D)))
                    /\ delta = 0 => REq(o_out.terms[i].time_match, RInt(100))

\* none of the non-empty words of the song's slugified name occurs in the
\* result's slugified name (a word: a maximal hyphen-free block of the slug)
SharesNoWord(song_name, result_name) ==
    LET s == slugify(song_name)
        r == slugify(result_name)
    IN  \A i, j \in 1..Len(s) :
            (/\ i <= j
             /\ \A k \in i..j : s[k] # "-"
             /\ (i = 1 \/ s[i - 1] = "-")
             /\ (j = Len(s) \/ s[j + 1] = "-"))
            => ~Contains(SubSeq(s, i, j), r)

\* C10: a result whose slugified title contains none of the words of the
\* song's slugified name is never accepted by order_results, whatever its
\* other fields are, and every link of the returned mapping is the link of a
\* result that does share a word; in both providers.
C10_CommonWordGate ==
    o_pc = "done" =>
        /\ \A i \in DOMAIN o_out.terms :
              SharesNoWord(o_song.name, o_results[i].name) => ~Scored(i)
        /\ \A k \in DOMAIN o_out.links_with_match_value :
              \E i \in DOMAIN o_out.terms :
                  /\ o_results[i].link = o_out.links_with_match_value[k].link
                  /\ ~SharesNoWord(o_song.name, o_results[i].name)

\* C10 witness: order_results has returned for a result that matches the
\* song perfectly in artist, title similarity and duration but shares no
\* word with it, and the mapping does not hold its link
C10_Witness ==
    /\ o_pc = "done"
    /\ ~o_out.raised
    /\ o_song.duration > 0
    /\ Len(o_results) = 1
    /\ SharesNoWord(o_song.name, o_results[1].name)
    /\ slugify(o_song.name) # <<>>
    /\ o_results[1].video_id # None
    /\ o_results[1].duration = o_song.duration
    /\ o_results[1].mp.name = 100
    /\ \A i \in DOMAIN o_song.artists : o_results[1].mp.artists[i] = 100
    /\ o_out.links_with_match_value = <<>>

\* ---------------------------------------------------------------- C7, C8
\* C7: a get_results call that raises ends the resolution at once with an
\* error, which is neither a reference nor the not-found result: the raising
\* call is the last call made, search is over, and every call followed by
\* another one had answered without raising.
C7_SearchFailureAborts ==
    \A i \in DOMAIN s_calls :
        s_calls[i].response.kind = "raise"
            => /\ i = Len(s_calls)
               /\ s_pc = "done"
               /\ s_result.kind = "error"
               /\ s_result # NotFound

\* the primary search raised after an ISRC search that answered
C7_Witness ==
    /\ s_pc = "done"
    /\ Len(s_calls) = 2
    /\ s_calls[1].response.kind = "list"
    /\ s_calls[2].phase = "primary"
    /\ s_calls[2].response.kind = "raise"
    /\ s_result.kind = "error"

\* the ISRC answer passes the provider's checks: exactly one candidate with a
\* usable reference and, for YouTube Music, an equal lowercased title and a
\* duration match above 90
IsrcAccepted(provider, song, resp) ==
    /\ resp.kind = "list"
    /\ Len(resp.results) = 1
    /\ resp.results[1].link # None
    /\ provider = "youtube-music" =>
          /\ lower(resp.results[1].name) = lower(song.name)
          /\ song.duration # 0
          /\ RLt(RInt(90), TimeMatchYTM(resp.results[1].duration, song.duration))

\* C8: the ISRC search is made only for a song that has an ISRC; when its
\* answer passes the checks search returns that candidate's reference and
\* makes no other search; in every other case (the ISRC search did not
\* raise) search goes on to the primary search.
C8_IsrcShortCircuit ==
    /\ \A i \in DOMAIN s_calls :
         s_calls[i].phase = "isrc" => i = 1 /\ s_song.isrc # None
    /\ (s_song.isrc = None /\ s_calls # <<>>) => s_calls[1].phase = "primary"
    /\ (s_calls # <<>> /\ s_calls[1].phase = "isrc") =>
         LET resp == s_calls[1].response
         IN  IF IsrcAccepted(s_provider, s_song, resp)
             THEN /\ Len(s_calls) = 1
                  /\ s_pc = "done"
                  /\ s_result = Found(resp.results[1].link)
             ELSE resp.kind # "raise" =>
                     \/ Len(s_calls) = 1 /\ s_pc = "primary"
                     \/ Len(s_calls) >= 2 /\ s_calls[2].phase = "primary"

\* ------------------------------------------------------------------ C11
\* the pipeline of song s has ended without an exception after tagging the
\* file
Succeeded(s) ==
    /\ pc[s] = "ended"
    /\ exc[s] = NoExc
    /\ \E i \in DOMAIN log[s] : log[s][i] = "embed_metadata"

LinesOf(s) == Cardinality({i \in DOMAIN m3u_lines : m3u_lines[i] = s})

\* C11: the playlist file keeps the lines it had (its first line is still the
\* line it had before the batch) and holds, for every song, exactly one line
\* when m3u_file is set and the song's pipeline succeeded, and no line
\* otherwise (NotFound, Failed, not finished, or no m3u_file).
C11_PlaylistAppendOnly ==
    /\ m3u_lines # <<>> /\ m3u_lines[1] = 0
    /\ LinesOf(0) = 1
    /\ \A s \in Songs :
         LinesOf(s) = IF m3u_file /\ Succeeded(s) THEN 1 ELSE 0

\* every song of the batch has ended, one succeeded and one failed, and the
\* file holds the old line and the line of the one that succeeded
C11_Witness ==
    /\ m3u_file
    /\ \A s \in Songs : pc[s] = "ended"
    /\ \E s1, s2 \in Songs :
         /\ Succeeded(s1) /\ exc[s2] # NoExc
         /\ LinesOf(s1) = 1 /\ LinesOf(s2) = 0
    /\ m3u_lines[1] = 0

\* ------------------------------------------------------------------ C12
Wanted(song) == song \notin d_exists \/ d_overwrite = "overwrite"

Count(list, song) == Cardinality({i \in DOMAIN list : list[i] = song})

InitSucceeded(i) == c_calls[i].op = "init" /\ c_calls[i].raised = "none"

InstanceBefore(i) == IF i = 1 THEN NoInstance ELSE c_calls[i - 1].instance

\* C13: in every sequence of SpotifyClient.init(...) and SpotifyClient()
\* calls, (1) SpotifyClient() raises SpotifyError when no init succeeded
\* before it, (2) an init after a successful one raises SpotifyError and
\* leaves the instance as it was, (3) every SpotifyClient() after a
\* successful init returns the one instance that init created.
C13_SingletonProtocol ==
    \A i \in DOMAIN c_calls :
        LET first == {j \in 1..(i - 1) : InitSucceeded(j)}
            call == c_calls[i]
        IN  /\ (call.op = "call" /\ first = {}) =>
                 call.raised = "SpotifyError"
            /\ (call.op = "init" /\ first # {}) =>
                 /\ call.raised = "SpotifyError"
                 /\ call.instance = InstanceBefore(i)
            /\ (call.op = "call" /\ first # {}) =>
                 /\ call.raised = "none"
                 /\ \A j \in first : call.value = c_calls[j].value
                 /\ call.value # NoInstance

\* init failed, init succeeded, a second init was refused and the client was
\* then obtained
C13_Witness ==
    /\ Len(c_calls) = 4
    /\ c_calls[1].op = "init" /\ c_calls[1].raised = "Exception"
    /\ InitSucceeded(2)
    /\ c_calls[3].op = "init" /\ c_calls[3].raised = "SpotifyError"
    /\ c_calls[4].op = "call" /\ c_calls[4].value = c_calls[2].value

\* ------------------------------------------------------------------ C14
\* the position in s_calls of the call of a phase (0: not called)
CallOf(phase) ==
    IF \E i \in DOMAIN s_calls : s_calls[i].phase = phase
    THEN CHOOSE i \in DOMAIN s_calls : s_calls[i].phase = phase
    ELSE 0

\* the scores order_results gives to the answer of a phase's call
ScoresOf(phase) ==
    order_results("youtube-music", s_calls[CallOf(phase)].response.results, s_song)

\* link is a key of the mapping d with the greatest value of d
IsTop(d, link) ==
    \E i \in DOMAIN d :
        /\ d[i].link = link
        /\ \A j \in DOMAIN d : RLe(d[j].value, d[i].value)

TopAtLeast80(d) ==
    \E i \in DOMAIN d :
        /\ RLe(RInt(80), d[i].value)
        /\ \A j \in DOMAIN d : RLe(d[j].value, d[i].value)

\* C14: in YouTubeMusic.search, once the song-category search has answered
\* and its results are scored: if the best score is >= 80, search returns the
\* reference of a best-scoring candidate and never makes the video-category
\* search; if no candidate is left or the best score is < 80, search does not
\* end before the video-category search is made.
C14_PrimaryThreshold ==
    (/\ s_provider = "youtube-music"
     /\ CallOf("primary") # 0
     /\ s_calls[CallOf("primary")].response.kind = "list"
     /\ ~ScoresOf("primary").raised) =>
        LET songs == ScoresOf("primary").links_with_match_value
        IN  IF TopAtLeast80(songs)
            THEN /\ s_pc = "done"
                 /\ s_result.kind = "link"
                 /\ IsTop(songs, s_result.link)
                 /\ CallOf("secondary") = 0
            ELSE /\ s_pc = "done" => CallOf("secondary") # 0
                 /\ s_pc # "done" => s_pc = "secondary" /\ s_result = Pending

\* the best song scored between 80 and 90 and was returned at once
C14_Witness ==
    /\ s_provider = "youtube-music"
    /\ s_pc = "done"
    /\ CallOf("primary") # 0
    /\ s_calls[CallOf("primary")].response.kind = "list"
    /\ ~ScoresOf("primary").raised
    /\ LET songs == ScoresOf("primary").links_with_match_value
       IN  /\ TopAtLeast80(songs)
           /\ \A i \in DOMAIN songs : RLt(songs[i].value, RInt(90))
    /\ s_result.kind = "link"
    /\ CallOf("secondary") = 0

\* the other side: the best song scored below 80 and the videos were searched
C14_SecondaryIssued ==
    /\ s_provider = "youtube-music"
    /\ s_pc = "done"
    /\ CallOf("primary") # 0
    /\ s_calls[CallOf("primary")].response.kind = "list"
    /\ ~ScoresOf("primary").raised
    /\ ScoresOf("primary").links_with_match_value # <<>>
    /\ ~TopAtLeast80(ScoresOf("primary").links_with_match_value)
    /\ CallOf("secondary") # 0

\* ------------------------------------------------------------------ C15
LinksOf(d) == {d[i].link : i \in DOMAIN d}
ValueIn(d, link) == d[CHOOSE i \in DOMAIN d : d[i].link = link].value

\* the score of a reference after the merge: the video's when the videos
\* have it, the song's otherwise
MergedValue(songs, videos, link) ==
    IF link \in LinksOf(videos) THEN ValueIn(videos, link) ELSE ValueIn(songs, link)

\* C15: when YouTubeMusic.search has made the videos search and scored its
\* answer, it returns None exactly when neither the songs nor the videos left
\* a scored candidate, and otherwise the reference whose merged score (the
\* video's score replacing the song's for the same reference) is the greatest.
C15_MergeAndTerminal ==
    (/\ s_provider = "youtube-music"
     /\ CallOf("secondary") # 0
     /\ s_calls[CallOf("secondary")].response.kind = "list"
     /\ ~ScoresOf("secondary").raised) =>
        LET songs == ScoresOf("primary").links_with_match_value
            videos == ScoresOf("secondary").links_with_match_value
            links == LinksOf(songs) \cup LinksOf(videos)
        IN  /\ s_pc = "done"
            /\ s_result.kind \in {"none", "link"}
            /\ s_result = NotFound <=> links = {}
            /\ s_result.kind = "link" =>
                 /\ s_result.link \in links
                 /\ \A l \in links :
                      RLe(MergedValue(songs, videos, l),
                          MergedValue(songs, videos, s_result.link))

\* a song and a video had the same reference, the video scored lower, and the
\* reference returned is another one, which the song's score would have beaten
C15_Witness ==
    /\ s_provider = "youtube-music"
    /\ s_pc = "done"
    /\ CallOf("secondary") # 0
    /\ s_calls[CallOf("secondary")].response.kind = "list"
    /\ ~ScoresOf("secondary").raised
    /\ s_result.kind = "link"
    /\ LET songs == ScoresOf("primary").links_with_match_value
           videos == ScoresOf("secondary").links_with_match_value
       IN  \E l \in LinksOf(songs) \cap LinksOf(videos) :
              /\ RLt(ValueIn(videos, l), ValueIn(songs, l))
              /\ s_result.link # l
              /\ RLt(ValueIn(videos, s_result.link), ValueIn(songs, l))

\* ------------------------------------------------------------------ C16
\* the candidates search has scored and accepted, in the order in which it
\* met them: those of the primary search (ph 1), then those of the videos
\* search (ph 2)
CandidatesOf(phase, ph) ==
    IF CallOf(phase) = 0 \/ s_calls[CallOf(phase)].response.kind # "list"
    THEN {}
    ELSE LET results == s_calls[CallOf(phase)].response.results
             out == order_results(s_provider, results, s_song)
         IN  {[ph |-> ph, i |-> i, link |-> results[i].link,
               value |-> out.terms[i].average_match] :
                 i \in {k \in DOMAIN out.terms : out.terms[k].stage = "accepted"}}

Candidates == CandidatesOf("primary", 1) \cup CandidatesOf("secondary", 2)

Before(c1, c2) == c1.ph < c2.ph \/ (c1.ph = c2.ph /\ c1.i < c2.i)

\* the candidate whose score stands for its reference: the last one met
Standing(c) ==
    /\ c \in Candidates
    /\ \A c2 \in Candidates : c2.link = c.link => ~Before(c, c2)

\* the candidates that stand with the top score
TopCandidates ==
    {c \in Candidates :
        /\ Standing(c)
        /\ \A c2 \in Candidates : Standing(c2) => RLe(c2.value, c.value)}

\* the first candidate met with the reference of c
FirstWithLink(c) ==
    CHOOSE c1 \in Candidates :
        /\ c1.link = c.link
        /\ \A c2 \in Candidates : c2.link = c.link => ~Before(c2, c1)

\* search has ended by returning the best of the candidates it ranked
Ranked ==
    /\ s_pc = "done"
    /\ s_result.kind = "link"
    /\ CallOf("primary") # 0

\* the same call repeated with the same answers of the stub ends the same way
SameAgain ==
    (s_prev.done /\ s_pc = "done") =>
        /\ s_result = s_prev.result
        /\ s_calls = s_prev.calls

\* C16 as stated: a repeated call returns the same result, and among the
\* candidates tied on the top score the first in candidate order is returned.
C16_TieFirstCandidate ==
    /\ SameAgain
    /\ Ranked =>
         \E c \in TopCandidates :
            /\ s_result.link = c.link
            /\ \A c2 \in TopCandidates : ~Before(c2, c)

\* C16 amended: a repeated call returns the same result, and among the
\* references tied on the top score the one returned is the one met first
\* among the candidates, whichever of its candidates gave it its score.
C16_Determinism ==
    /\ SameAgain
    /\ Ranked =>
         \E c \in TopCandidates :
            /\ s_result.link = c.link
            /\ \A c2 \in TopCandidates :
                 ~Before(FirstWithLink(c2), FirstWithLink(c))

\* the second call has ended like the first, with two references tied on the
\* top score
C16_Witness ==
    /\ s_prev.done
    /\ Ranked
    /\ s_result = s_prev.result
    /\ \E c1, c2 \in TopCandidates : c1.link # c2.link

\* ------------------------------------------------------------------ C17
\* C17: order_results called for a song of duration 0 does not raise: every
\* result is either left out of the mapping or scored, and the call returns.
C17_ZeroDurationNoRaise ==
    (o_pc = "done" /\ o_song.duration = 0) =>
        /\ ~o_out.raised
        /\ \A i \in DOMAIN o_out.terms : o_out.terms[i].stage # "raise"
        /\ Len(o_out.terms) = Len(o_results)

\* ------------------------------------------------------------------ C18
\* the mean, over the song's artists, of the similarities of each artist
\* against one text of the result
MeanOf(sims) == R(SumSeq(sims), Len(sims))

\* the texts an artist is compared with: the result's artist text (title, for
\* YouTube and for a video), or, for a YouTube Music video whose title
\* matches no artist at all, the channel
ArtistSims(i) ==
    IF /\ o_provider = "youtube-music"
       /\ o_results[i].type # "song"
       /\ \A k \in DOMAIN o_song.artists : o_results[i].mp.artists[k] = 0
    THEN o_results[i].mp.channel
    ELSE o_results[i].mp.artists

PassedCommonWord(i) == o_out.terms[i].stage \notin {"no_id", "no_common_word"}

\* C18: for every result that passes the common-word gate, the artist match
\* is the mean of the per-artist similarities; a result is accepted only with
\* an artist match >= 70 and a title match >= 50; every link of the mapping
\* is the link of an accepted result and carries that result's score, so a
\* result failing a gate puts nothing in the mapping.
C18_ArtistAndTitleGates ==
    o_pc = "done" =>
        /\ \A i \in DOMAIN o_out.terms :
             /\ PassedCommonWord(i) =>
                  REq(o_out.terms[i].artist_match, MeanOf(ArtistSims(i)))
             /\ Scored(i) =>
                  /\ RLe(RInt(70), MeanOf(ArtistSims(i)))
                  /\ o_results[i].mp.name >= 50
             /\ (PassedCommonWord(i) /\ RLt(MeanOf(ArtistSims(i)), RInt(70)))
                    => o_out.terms[i].stage = "artist"
             /\ (PassedCommonWord(i) /\ RLe(RInt(70), MeanOf(ArtistSims(i)))
                 /\ o_results[i].mp.name < 50)
                    => o_out.terms[i].stage = "name"
        /\ \A k \in DOMAIN o_out.links_with_match_value :
             \E i \in DOMAIN o_out.terms :
                 /\ Scored(i)
                 /\ o_results[i].link = o_out.links_with_match_value[k].link
                 /\ o_out.terms[i].average_match = o_out.links_with_match_value[k].value

\* two artists, one matching the result fully and one not at all: the mean is
\* 50 and the result is left out
C18_Witness ==
    /\ o_pc = "done"
    /\ Len(o_song.artists) = 2
    /\ Len(o_results) = 1
    /\ o_results[1].mp.artists = <<100, 0>>
    /\ o_results[1].mp.name = 100
    /\ o_out.terms[1].stage = "artist"
    /\ REq(o_out.terms[1].artist_match, RInt(50))
    /\ o_out.links_with_match_value = <<>>

\* ------------------------------------------------------------------ C19
\* the terms of result i, from the inputs of the call
ArtistTerm(i) == MeanOf(ArtistSims(i))
NameTerm(i) == RInt(o_results[i].mp.name)
AlbumTerm(i) == RInt(o_results[i].mp.album)
DurationTerm(i) ==
    LET delta == o_results[i].duration - o_song.duration
    IN  RSub(RInt(100), R(delta * delta * 100, o_song.duration))

\* result i is a song that carries an album name, and that name is not a
\* copy of the result's own title foreign to the song's album
AlbumTermApplies(i) ==
    /\ o_results[i].type = "song"
    /\ o_results[i].album # NoneText
    /\ ~(/\ o_results[i].mp.self_album > 95
         /\ lower(o_results[i].album) # lower(o_song.album_name))

\* C19: in YouTubeMusic.order_results the score of an accepted result is the
\* mean of artist, title and duration terms, and of the album term as a
\* fourth one exactly when the result is a song with an album name that is
\* not discarded as self-referential; a video is always scored on three.
C19_FinalScoreMean ==
    (o_pc = "done" /\ o_provider = "youtube-music") =>
        \A i \in DOMAIN o_out.terms :
            Scored(i) =>
                LET sum3 == RAdd(RAdd(ArtistTerm(i), NameTerm(i)), DurationTerm(i))
                    sum4 == RAdd(sum3, AlbumTerm(i))
                IN  /\ AlbumTermApplies(i) =>
                         REq(o_out.terms[i].average_match, RDivInt(sum4, 4))
                    /\ ~AlbumTermApplies(i) =>
                         REq(o_out.terms[i].average_match, RDivInt(sum3, 3))

\* a song whose album name copies its title and is not the song's album: the
\* album term, 0, is left out and the score is the mean of the three others
C19_Witness ==
    /\ o_pc = "done"
    /\ o_provider = "youtube-music"
    /\ Len(o_results) = 1
    /\ Scored(1)
    /\ o_results[1].type = "song"
    /\ o_results[1].album = <<"y">>
    /\ o_results[1].mp.self_album = 100
    /\ o_results[1].mp.album = 0
    /\ o_results[1].duration = o_song.duration
    /\ REq(o_out.terms[1].average_match, RInt(100))

\* ------------------------------------------------------------------ C20
LaterSteps ==
    {"notify_conversion_complete", "get_lyrics", "embed_metadata",
     "notify_complete", "m3u_append"}

\* C20: a song whose conversion returned success = False has its diagnostic
\* written to the error file, ends with an exception (Failed), and runs none
\* of the steps that follow the conversion.
C20_ConverterFailureFails ==
    \A s \in Songs :
        (\E i \in DOMAIN log[s] : log[s][i] = "convert_returned_false") =>
            /\ \E i \in DOMAIN log[s] : log[s][i] = "error_file"
            /\ exc[s].class = "FFmpegError"
            /\ \A i \in DOMAIN log[s] : log[s][i] \notin LaterSteps

\* ------------------------------------------------------------------ C21
CountOf(s, c) == Cardinality({i \in DOMAIN log[s] : log[s][i] = c})

\* the file the fetch left in the temp directory is still there under its
\* temp name: it was fetched (line 176 is reached only with a file) and
\* neither renamed (line 182) nor unlinked (line 190)
TempExists(s) ==
    /\ CountOf(s, "create_file_name") > 0
    /\ CountOf(s, "rename") = 0
    /\ CountOf(s, "unlink") = 0

\* the move, or a conversion that returned, is over
StepCompleted ==
    \/ CountOf(Watched, "rename") > 0
    \/ seen.conv \in {"ok", "fail_msg", "fail_nomsg"}

C22_MissingLyricsNotError ==
    seen.lyrics \in {"none", "empty"} =>
        /\ CountOf(Watched, "embed_metadata") = 1
        /\ seen.embedded = ""
        /\ (seen.embed = "ok" /\ seen.m3u # "raise") =>
              /\ Succeeded(Watched)
              /\ CountOf(Watched, "notify_error") = 0
              /\ handler => CountOf(Watched, "notify_complete") = 1

C22_Witness ==
    /\ seen.lyrics = "none"
    /\ seen.conv = "ok"
    /\ seen.embedded = ""
    /\ Succeeded(Watched)

\* ------------------------------------------------------------------ C23
InFlight(s) == pc[s] \in {"fetching", "converting"}

\* C23: every line of the playlist file after the one it started with is one
\* complete path of a song, and the file changes only by a step of one
\* pipeline that appends that song's whole line and ends the pipeline, while
\* every other pipeline stays where it is.
C23_AppendIndivisible ==
    /\ [](\A i \in 2..Len(m3u_lines) : m3u_lines[i] \in Songs)
    /\ [][m3u_lines' # m3u_lines =>
            \E s \in Songs :
                /\ InFlight(s)
                /\ pc'[s] = "ended"
                /\ m3u_lines' = Append(m3u_lines, s)
                /\ \A u \in Songs \ {s} : pc'[u] = pc[u] /\ log'[u] = log[u]]_vars

C23_Witness ==
    \E s, u \in Songs :
        /\ s # u
        /\ LinesOf(s) = 1
        /\ InFlight(u)
        /\ m3u_lines[Len(m3u_lines)] = s

\* ------------------------------------------------------------------ C24
\* ytmusic.py:45, 60: the fetched file is <temp directory>/<video id>.<ext>,
\* named after the source reference alone. A song with a preset download_url
\* is fetched from that url; any other song from the link its search found
\* (taken here to differ from song to song).
TempName(s) ==
    IF download_url[s] = "preset"
    THEN [ref |-> "preset", of |-> 0]
    ELSE [ref |-> "found", of |-> s]

\* C24: two pipelines in flight at the same time never use the same temp file.
C24_DistinctTempNames ==
    \A s, u \in Songs :
        (s # u /\ InFlight(s) /\ InFlight(u)) => TempName(s) # TempName(u)

\* ------------------------------------------------------------------ C25
\* the place of a call in the order of the steps of one track: resolve,
\* fetch, download-complete, convert or move, conversion-complete, lyrics,
\* embed, playlist append, success
StepRank(c) ==
    CASE c \in {"get_new_tracker", "add_progress_hook"} -> 0
      [] c = "search" -> 1
      [] c = "perform_download" -> 2
      [] c = "notify_download_complete" -> 3
      [] c \in {"create_file_name", "rename", "convert", "convert_returned_false",
                "unlink", "error_file"} -> 4
      [] c = "notify_conversion_complete" -> 5
      [] c = "get_lyrics" -> 6
      [] c = "embed_metadata" -> 7
      [] c = "m3u_append" -> 8
      [] c = "notify_complete" -> 9
      [] OTHER -> 10

\* C25: the calls of a song's pipeline are made in the order of the steps,
\* and a song is reported complete only after its playlist line, when one is
\* to be written, has been appended.
C25_StepsInOrder ==
    \A s \in Songs :
        /\ \A i, j \in DOMAIN log[s] : i < j => StepRank(log[s][i]) <= StepRank(log[s][j])
        /\ (m3u_file /\ CountOf(s, "notify_complete") > 0) =>
               CountOf(s, "m3u_append") > 0

\* the same order with the report of completion placed before the append
C25_CodeOrder ==
    \A s \in Songs :
        \A i, j \in DOMAIN log[s] :
            i < j => LET a == log[s][i]
                         b == log[s][j]
                     IN  \/ StepRank(a) <= StepRank(b)
                         \/ a = "notify_complete" /\ b \in {"m3u_append", "notify_error"}

\* ------------------------------------------------------------------ C26
\* the pipeline of s ended in an exception (Failed)
Failed(s) == pc[s] = "ended" /\ exc[s] # NoExc

\* the destination file is there: the fetched file was renamed to it (line
\* 182), or the conversion wrote it and the pipeline went on to tag it
OutputExists(s) ==
    \/ CountOf(s, "rename") > 0
    \/ CountOf(s, "get_lyrics") > 0

\* C26: a song whose pipeline failed has neither its temp file nor its
\* output file left behind.
C26_NoPartialOutput ==
    \A s \in Songs : Failed(s) => ~TempExists(s) /\ ~OutputExists(s)

\* --------------------------------------------- claims about the progress
\* ------------------------------------------------------------------ C27
\* C27: overall_completed_tasks never exceeds song_count, and no tracker has
\* added more than 1 to it.
C27_CompletedOnce ==
    /\ p_handler.overall_completed_tasks <= p_handler.song_count
    /\ \A t \in Trackers : p_trackers[t].counted <= 1

\* ------------------------------------------------------------------ C28
\* C28: a progress event reported by the fetch of one pipeline leaves the
\* tracker of every other pipeline as it was.
C28_ProgressPerItem ==
    [][p_events' # p_events =>
          \A t \in Trackers \ {p_source'} : p_trackers'[t] = p_trackers[t]]_vars

\* ------------------------------------------------------------------ C29
RECURSIVE SumOld(_)
SumOld(ts) ==
    IF ts = {} THEN 0
    ELSE LET t == CHOOSE x \in ts : TRUE
         IN  p_trackers[t].old_progress + SumOld(ts \ {t})

\* C29: overall_progress is the sum of the trackers' old_progress, every
\* tracker's progress is within 0..100 and never decreases while its pipeline
\* is the same, and overall_progress is at most 100 * song_count.
C29_AggregateProgress ==
    /\ [](p_handler.overall_progress = SumOld(Trackers))
    /\ [](\A t \in Trackers : p_trackers[t].progress \in 0..100)
    /\ [](p_handler.overall_progress <= 100 * p_handler.song_count)
    /\ [][\A t \in Trackers :
             p_stage[t] # "queued" => p_trackers'[t].progress >= p_trackers[t].progress]_vars

\* the parts of C29 the code keeps in every batch
C29_SumAndRange ==
    /\ p_handler.overall_progress = SumOld(Trackers)
    /\ \A t \in Trackers : p_trackers[t].progress \in 0..100

\* ------------------------------------------------------------------ C30
\* C30: a call of create_file_name runs at most two activations (the call and
\* one retry with short=True), never exhausts the stack, and the name of the
\* path it returns is at most 255 characters long.
C30_FileNameTerminates ==
    /\ n_calls <= 2
    /\ n_pc # "RecursionError"
    /\ n_pc = "returned" => Len(n_file[Len(n_file)]) <= NameMax

\* what the code keeps: a returned name is at most 255 characters long
C30_ReturnedNameFits ==
    n_pc = "returned" => n_file # <<>> /\ Len(n_file[Len(n_file)]) <= NameMax

====
